---- MODULE Spec2Model ----
(***************************************************************************)
(* Model of the yt_summary chunking and map-reduce summarization pipeline. *)
(*                                                                         *)
(* Strings are sequences of one-character strings, so that slicing,        *)
(* searching, trimming and concatenation are computed as Python computes   *)
(* them.  Indices held in variables are Python's (0-based, possibly        *)
(* negative); the helpers convert to TLA+'s 1-based sequences.             *)
(***************************************************************************)
EXTENDS Integers, Sequences, FiniteSets, TLC

VARIABLES
    \* TextProcessor.split_into_chunks: its arguments, its locals start and
    \* chunks, the (start, end) of every window so far, and where it is.
    text, max_chunk_size, overlap, start, chunks, windows, split_pc,
    \* SummarizationAgent.summarize_all_chunks: its argument (the chunk
    \* records), the position of the for loop, its local summaries.
    chunk_data, map_i, summaries, map_pc,
    \* SynthesisAgent.create_structured_summary: its arguments and its result.
    chunk_summaries, video_metadata, result, reduce_pc,
    \* Every generate call made on the Generation Port, with its outcome.
    calls,
    \* YouTubeSummarizer.summarize_video: where the run is, the chunk whose
    \* generate call is in flight (0 when none), and every generate call in
    \* the order it was started, and how the extraction step ended.
    run_pc, pending, issued, extraction,
    \* YouTubeExtractor.get_transcript: its argument max_retries, the loop
    \* variable attempt, what each attempt met, the sleeps made, how it ended.
    max_retries, attempt, attempts, sleeps, fetch_pc, fetch_out,
    \* TextProcessor.clean_text applied repeatedly: the input and the results.
    clean_in, clean_outs,
    \* ChunkingAgent.chunk_transcript: its argument and where it is.
    transcript, chunk_pc

split_vars == <<text, max_chunk_size, overlap, start, chunks, windows, split_pc>>
map_vars == <<chunk_data, map_i, summaries, map_pc>>
reduce_vars == <<chunk_summaries, video_metadata, result, reduce_pc>>
run_vars == <<run_pc, pending, issued, extraction>>
fetch_vars == <<max_retries, attempt, attempts, sleeps, fetch_pc, fetch_out>>
clean_vars == <<clean_in, clean_outs>>
agent_vars == <<transcript, chunk_pc>>
aux_vars == <<run_vars, fetch_vars, clean_vars, agent_vars>>
vars == <<split_vars, map_vars, reduce_vars, calls, aux_vars>>

----------------------------------------------------------------------------
\* Bounds of the model.

\* Longest text enumerated character by character.
MaxLen == 5
\* Largest max_chunk_size and overlap drawn (the smallest drawn is -1).
MaxSize == 8
MaxOverlap == 4
\* Cap on the iterations of the splitting loop that the model follows.
MaxIter == 6
\* Structured longer texts: lead, a sentence terminator and a space, tail,
\* with lead and tail made of "a".
MaxLead == 2
MaxTail == 8

\* Program constant: the sentence look-back of split_into_chunks.
Lookback == 200

Alphabet == {"a", ".", " "}
Terminators == {".", "!", "?"}
Whitespace == {" ", "\n", "\t"}

----------------------------------------------------------------------------
\* Python's built-in string operations.

SetMax(S) == CHOOSE x \in S : \A y \in S : y <= x
SetMin(S) == CHOOSE x \in S : \A y \in S : x <= y
Max2(a, b) == IF a >= b THEN a ELSE b

SeqsUpTo(S, n) == UNION {[1..k -> S] : k \in 0..n}
Rep(c, n) == [i \in 1..n |-> c]

\* Slice index adjustment: a negative index counts from the end, and the
\* result is clipped to 0..n.
AdjustIndex(i, n) ==
    IF i < 0 THEN (IF i + n < 0 THEN 0 ELSE i + n)
    ELSE IF i > n THEN n ELSE i

\* s[i:j]
PySlice(s, i, j) ==
    LET a == AdjustIndex(i, Len(s))
        b == AdjustIndex(j, Len(s))
    IN  IF a < b THEN SubSeq(s, a + 1, b) ELSE <<>>

\* s.rfind(sub, i, j): the highest index k with i <= k, k + len(sub) <= j and
\* s[k:k+len(sub)] == sub, after index adjustment; -1 when there is none.
RFind(s, sub, i, j) ==
    LET n == Len(s)
        e == IF j > n THEN n
             ELSE IF j < 0 THEN (IF j + n < 0 THEN 0 ELSE j + n) ELSE j
        b == IF i < 0 THEN (IF i + n < 0 THEN 0 ELSE i + n) ELSE i
        hits == {k \in b..(e - Len(sub)) : SubSeq(s, k + 1, k + Len(sub)) = sub}
    IN  IF hits = {} THEN -1 ELSE SetMax(hits)

\* s.strip()
Strip(s) ==
    LET keep == {i \in 1..Len(s) : s[i] \notin Whitespace}
    IN  IF keep = {} THEN <<>> ELSE SubSeq(s, SetMin(keep), SetMax(keep))

----------------------------------------------------------------------------
\* TextProcessor.split_into_chunks

IsShortStrict(t, size) == Len(t) < size

\* The guard of the early return.
IsShort(t, size) == Len(t) <= size

NaiveEndOffByOne(st, size) == st + size + 1

\* end = start + max_chunk_size
NaiveEnd(st, size) == st + size

SearchStartWholeWindow(st, end) == st

\* search_start = max(end - 200, start)
SearchStart(st, end) == Max2(end - Lookback, st)

\* sentence_end = max(rfind('. '), rfind('! '), rfind('? '))
SentenceEnd(t, from, end) ==
    Max2(RFind(t, <<".", " ">>, from, end),
         Max2(RFind(t, <<"!", " ">>, from, end),
              RFind(t, <<"?", " ">>, from, end)))

\* The end of the window that starts at st, after sentence snapping.
WindowEnd(t, st, size) ==
    LET end == NaiveEnd(st, size)
    IN  IF end < Len(t)
        THEN LET sentence_end == SentenceEnd(t, SearchStart(st, end), end)
             IN  IF sentence_end > st THEN sentence_end + 1 ELSE end
        ELSE end

\* chunk = text[start:end].strip()
ChunkOf(t, st, end) == Strip(PySlice(t, st, end))

\* start = end - overlap if end < len(text) else len(text)
NextStart(t, end, ov) == IF end < Len(t) THEN end - ov ELSE Len(t)

\* The call: the early return for a short text, else the loop is entered.
SplitCall ==
    /\ split_pc = "call"
    /\ IF IsShort(text, max_chunk_size)
       THEN /\ chunks' = <<text>>
            /\ split_pc' = "done"
       ELSE /\ chunks' = <<>>
            /\ split_pc' = "loop"
    /\ start' = 0
    /\ UNCHANGED <<text, max_chunk_size, overlap, windows>>
    /\ UNCHANGED <<map_vars, reduce_vars, calls, aux_vars>>

\* One iteration of the while loop.
SplitIter ==
    /\ split_pc = "loop"
    /\ start < Len(text)
    /\ Len(windows) < MaxIter
    /\ LET end == WindowEnd(text, start, max_chunk_size)
           chunk == ChunkOf(text, start, end)
       IN  /\ chunks' = IF chunk # <<>> THEN Append(chunks, chunk) ELSE chunks
           /\ windows' = Append(windows,
                  [start |-> start, end |-> end, emitted |-> chunk # <<>>])
           /\ start' = NextStart(text, end, overlap)
    /\ UNCHANGED <<text, max_chunk_size, overlap, split_pc>>
    /\ UNCHANGED <<map_vars, reduce_vars, calls, aux_vars>>

\* The loop condition fails: return chunks.
SplitReturn ==
    /\ split_pc = "loop"
    /\ ~(start < Len(text))
    /\ split_pc' = "done"
    /\ UNCHANGED <<text, max_chunk_size, overlap, start, chunks, windows>>
    /\ UNCHANGED <<map_vars, reduce_vars, calls, aux_vars>>

\* The components a specification does not exercise stay as constructed.
SplitIdle ==
    /\ text = <<>> /\ max_chunk_size = 4000 /\ overlap = 200
    /\ start = 0 /\ chunks = <<>> /\ windows = <<>> /\ split_pc = "idle"

MapIdle ==
    chunk_data = <<>> /\ map_i = 1 /\ summaries = <<>> /\ map_pc = "idle"

ReduceIdle ==
    /\ chunk_summaries = <<>> /\ video_metadata = <<>>
    /\ result = <<>> /\ reduce_pc = "idle"

RunIdle ==
    run_pc = "idle" /\ pending = 0 /\ issued = <<>> /\ extraction = "none"

FetchIdle ==
    /\ max_retries = 3 /\ attempt = 0 /\ attempts = <<>> /\ sleeps = <<>>
    /\ fetch_pc = "idle" /\ fetch_out = <<>>

CleanIdle == clean_in = <<>> /\ clean_outs = <<>>

AgentIdle == transcript = <<>> /\ chunk_pc = "idle"

LongTexts ==
    {Rep("a", i) \o <<t, " ">> \o Rep("a", j) :
        i \in 0..MaxLead, j \in 0..MaxTail, t \in Terminators}

Texts == SeqsUpTo(Alphabet, MaxLen) \cup LongTexts

InitSplit ==
    /\ text \in Texts
    /\ max_chunk_size \in -1..MaxSize
    /\ overlap \in -1..MaxOverlap
    /\ start = 0
    /\ chunks = <<>>
    /\ windows = <<>>
    /\ split_pc = "call"
    /\ MapIdle /\ ReduceIdle /\ calls = <<>>
    /\ RunIdle /\ FetchIdle /\ CleanIdle /\ AgentIdle

NextSplit == SplitCall \/ SplitIter \/ SplitReturn

SpecSplit == InitSplit /\ [][NextSplit]_vars

----------------------------------------------------------------------------
\* Claims about split_into_chunks.

\* The sizing configuration the specification calls valid.
ValidConfig == max_chunk_size > 0 /\ overlap >= 0 /\ overlap < max_chunk_size

\* C5: an invalid sizing configuration is rejected before any chunk is
\* produced: the splitter neither enters its loop nor returns chunks.
C5_InvalidConfigRejected ==
    ~ValidConfig => (chunks = <<>> /\ split_pc \notin {"loop", "done"})

\* C6: under a valid configuration every iteration of the loop moves the start
\* cursor at least one character forward.
C6_CursorAdvances ==
    [][(SplitIter /\ ValidConfig) => start' > start]_vars

\* C7: a text no longer than max_chunk_size is returned as the single chunk
\* [text], whatever the overlap.
C7_ShortPassthrough ==
    (split_pc = "done" /\ Len(text) <= max_chunk_size) => chunks = <<text>>

C7_Witness ==
    /\ split_pc = "done"
    /\ Len(text) = max_chunk_size
    /\ Len(text) >= 2
    /\ text[1] \in Whitespace
    /\ overlap >= max_chunk_size
    /\ chunks = <<text>>

\* Position p (0-based) lies in the window of an emitted chunk.
Covered(p) ==
    \E i \in 1..Len(windows) :
        windows[i].emitted /\ windows[i].start <= p /\ p < windows[i].end

\* C8: when a long text has been split under a valid configuration, every
\* non-whitespace position is inside an emitted chunk's window, consecutive
\* windows leave no gap, and the last window reaches the end of the text.
C8_Coverage ==
    (ValidConfig /\ split_pc = "done" /\ Len(text) > max_chunk_size) =>
        /\ \A p \in 0..(Len(text) - 1) :
               text[p + 1] \notin Whitespace => Covered(p)
        /\ \A i \in 1..(Len(windows) - 1) : windows[i + 1].start <= windows[i].end
        /\ windows # <<>>
        /\ windows[Len(windows)].end >= Len(text)

\* C9: under a valid configuration no emitted chunk is longer than
\* max_chunk_size.
C9_ChunkWithinMax ==
    ValidConfig => \A i \in 1..Len(chunks) : Len(chunks[i]) <= max_chunk_size

C9_Witness ==
    /\ ValidConfig
    /\ split_pc = "done"
    /\ Len(chunks) >= 2
    /\ \E i \in 1..Len(chunks) : Len(chunks[i]) = max_chunk_size
    /\ \E i \in 1..Len(windows) : windows[i].end < NaiveEnd(windows[i].start, max_chunk_size)

\* The places (0-based) of the terminators followed by a space that lie, both
\* characters, in the last Lookback characters of the window from st to end
\* and after st.
SnapCandidates(t, st, end) ==
    {p \in 0..(Len(t) - 2) :
        /\ p > st
        /\ p >= end - Lookback
        /\ p + 1 < end
        /\ t[p + 1] \in Terminators
        /\ t[p + 2] = " "}

\* C16: under a valid configuration, a window that is not final (start +
\* max_chunk_size is before the end of the text) ends at start +
\* max_chunk_size when no terminator followed by a space lies in its lookback
\* after start, and else one character past the right-most such terminator;
\* a final window ends at start + max_chunk_size.
C16_SentenceSnapping ==
    ValidConfig =>
        \A i \in 1..Len(windows) :
            LET w == windows[i]
                raw == w.start + max_chunk_size
                found == SnapCandidates(text, w.start, raw)
            IN  IF raw < Len(text) /\ found # {}
                THEN w.end = SetMax(found) + 1
                ELSE w.end = raw

----------------------------------------------------------------------------
\* The Generation Port (BaseLLMProvider.generate): a call either returns a
\* text or raises an error that carries a message.

ModelTexts == {<<>>, <<" ", "\n">>, <<" ", "o", "k", "\n">>}
ErrorMessages == {<<>>, <<"t", "i", "m", "e", "o", "u", "t">>}

Returned(t) == [ok |-> TRUE, value |-> t]
Raised(msg) == [ok |-> FALSE, value |-> msg]

Call(agent, prompt, max_tokens, outcome) ==
    [agent |-> agent, prompt |-> prompt, max_tokens |-> max_tokens,
     outcome |-> outcome]

\* String literals of the prompts and documents.

\* summarize_chunk user prompt: the text before the time range
SummarizePromptHead ==
    <<"S", "u", "m", "m", "a", "r", "i", "z", "e", " ", "t", "h", "i", "s",
      " ", "v", "i", "d", "e", "o", " ", "t", "r", "a", "n", "s", "c", "r",
      "i", "p", "t", " ", "c", "h", "u", "n", "k", ":", "\n", "\n", "T", "i",
      "m", "e", " ", "R", "a", "n", "g", "e", ":", " ">>

TimeRangeSep ==
    <<" ", "-", " ">>

SummarizePromptMid ==
    <<"\n", "\n", "T", "r", "a", "n", "s", "c", "r", "i", "p", "t", ":", "\n">>

SummarizePromptTail ==
    <<"\n", "\n", "P", "r", "o", "v", "i", "d", "e", " ", "a", " ", "c", "l",
      "e", "a", "r", " ", "s", "u", "m", "m", "a", "r", "y", " ", "h", "i",
      "g", "h", "l", "i", "g", "h", "t", "i", "n", "g", " ", "t", "h", "e",
      " ", "m", "a", "i", "n", " ", "t", "o", "p", "i", "c", "s", " ", "a",
      "n", "d", " ", "k", "e", "y", " ", "p", "o", "i", "n", "t", "s", ".">>

\* The prefix of a failed chunk summary.
ErrorMarker ==
    <<"E", "r", "r", "o", "r", ":", " ">>

\* synthesize user prompt
SynthesisPromptHead ==
    <<"H", "e", "r", "e", " ", "a", "r", "e", " ", "s", "u", "m", "m", "a",
      "r", "i", "e", "s", " ", "o", "f", " ", "d", "i", "f", "f", "e", "r",
      "e", "n", "t", " ", "p", "a", "r", "t", "s", " ", "o", "f", " ", "a",
      " ", "Y", "o", "u", "T", "u", "b", "e", " ", "v", "i", "d", "e", "o",
      ":", "\n", "\n", "V", "i", "d", "e", "o", " ", "U", "R", "L", ":", " ">>

SynthesisPromptDuration ==
    <<"\n", "D", "u", "r", "a", "t", "i", "o", "n", ":", " ">>

SynthesisPromptChunks ==
    <<" ", "s", "e", "c", "o", "n", "d", "s", "\n", "\n", "C", "h", "u", "n",
      "k", " ", "S", "u", "m", "m", "a", "r", "i", "e", "s", ":", "\n">>

SynthesisPromptTail ==
    <<"\n", "\n", "C", "r", "e", "a", "t", "e", " ", "a", " ", "c", "o", "m",
      "p", "r", "e", "h", "e", "n", "s", "i", "v", "e", ",", " ", "h", "i",
      "e", "r", "a", "r", "c", "h", "i", "c", "a", "l", " ", "s", "u", "m",
      "m", "a", "r", "y", " ", "o", "f", " ", "t", "h", "i", "s", " ", "e",
      "n", "t", "i", "r", "e", " ", "v", "i", "d", "e", "o", " ", "f", "o",
      "l", "l", "o", "w", "i", "n", "g", " ", "t", "h", "e", " ", "s", "t",
      "r", "u", "c", "t", "u", "r", "e", " ", "s", "p", "e", "c", "i", "f",
      "i", "e", "d", " ", "i", "n", " ", "t", "h", "e", " ", "s", "y", "s",
      "t", "e", "m", " ", "p", "r", "o", "m", "p", "t", ".", " ", "\n", "O",
      "r", "g", "a", "n", "i", "z", "e", " ", "t", "h", "e", " ", "c", "o",
      "n", "t", "e", "n", "t", " ", "l", "o", "g", "i", "c", "a", "l", "l",
      "y", " ", "b", "y", " ", "t", "o", "p", "i", "c", "s", ",", " ", "i",
      "n", "c", "l", "u", "d", "e", " ", "t", "i", "m", "e", "s", "t", "a",
      "m", "p", "s", ",", " ", "u", "s", "e", " ", "b", "o", "t", "h", " ",
      "b", "u", "l", "l", "e", "t", " ", "p", "o", "i", "n", "t", "s", " ",
      "a", "n", "d", " ", "n", "a", "r", "r", "a", "t", "i", "v", "e", " ",
      "p", "a", "r", "a", "g", "r", "a", "p", "h", "s", ".">>

\* The fallback document of synthesize.
FallbackHead ==
    <<"#", " ", "V", "i", "d", "e", "o", " ", "S", "u", "m", "m", "a", "r",
      "y", "\n", "\n", "#", "#", " ", "E", "r", "r", "o", "r", "\n", "F",
      "a", "i", "l", "e", "d", " ", "t", "o", " ", "s", "y", "n", "t", "h",
      "e", "s", "i", "z", "e", " ", "f", "i", "n", "a", "l", " ", "s", "u",
      "m", "m", "a", "r", "y", ":", " ">>

FallbackChunks ==
    <<"#", "#", " ", "C", "h", "u", "n", "k", " ", "S", "u", "m", "m", "a",
      "r", "i", "e", "s", "\n", "\n">>

\* The default of video_metadata.get(...).
NotAvailable ==
    <<"N", "/", "A">>

WatchUrl ==
    <<"h", "t", "t", "p", "s", ":", "/", "/", "w", "w", "w", ".", "y", "o",
      "u", "t", "u", "b", "e", ".", "c", "o", "m", "/", "w", "a", "t", "c",
      "h", "?", "v", "=">>


----------------------------------------------------------------------------
\* SummarizationAgent

\* Bounds: the longest chunk list and chunk-summary list drawn.
MaxChunks == 2
MaxSummaries == 2
MaxRunChunks == 2
MaxCalls == 4

ChunkIds == 1..2
Timestamps == {<<"0", "0", ":", "0", "0">>, <<"0", "1", ":", "2", "0">>}
ChunkTexts == {<<"[", "0", "1", ":", "2", "0", "]", " ", "a", ".">>}
ChunkEndTimestamps == {<<"0", "1", ":", "2", "0">>}

\* A chunk record as ChunkingAgent.chunk_transcript builds it.
ChunkRecord(id, t, first, last) ==
    [chunk_id |-> id, text |-> t, start_timestamp |-> first,
     end_timestamp |-> last, char_count |-> Len(t)]

ChunkRecords ==
    {ChunkRecord(id, t, first, last) :
        id \in ChunkIds, t \in ChunkTexts, first \in Timestamps, last \in Timestamps}

\* The user prompt of summarize_chunk.
SummarizePrompt(chunk) ==
    SummarizePromptHead \o chunk.start_timestamp \o TimeRangeSep
        \o chunk.end_timestamp \o SummarizePromptMid \o chunk.text
        \o SummarizePromptTail

\* The record summarize_chunk returns when generate returned.
SuccessSummaryUntrimmed(chunk, generated) ==
    [chunk_id |-> chunk.chunk_id,
     start_timestamp |-> chunk.start_timestamp,
     end_timestamp |-> chunk.end_timestamp,
     summary |-> generated,
     success |-> TRUE]

SuccessSummary(chunk, generated) ==
    [chunk_id |-> chunk.chunk_id,
     start_timestamp |-> chunk.start_timestamp,
     end_timestamp |-> chunk.end_timestamp,
     summary |-> Strip(generated),
     success |-> TRUE]

FailedSummarySentinelTime(chunk, msg) ==
    [chunk_id |-> chunk.chunk_id,
     start_timestamp |-> <<"0", "0", ":", "0", "0">>,
     end_timestamp |-> <<"0", "0", ":", "0", "0">>,
     summary |-> ErrorMarker \o msg,
     success |-> FALSE]

FailedSummaryFlaggedOk(chunk, msg) ==
    [chunk_id |-> chunk.chunk_id,
     start_timestamp |-> chunk.start_timestamp,
     end_timestamp |-> chunk.end_timestamp,
     summary |-> ErrorMarker \o msg,
     success |-> TRUE]

\* The record summarize_chunk returns when generate raised.
FailedSummary(chunk, msg) ==
    [chunk_id |-> chunk.chunk_id,
     start_timestamp |-> chunk.start_timestamp,
     end_timestamp |-> chunk.end_timestamp,
     summary |-> ErrorMarker \o msg,
     success |-> FALSE]

\* summarize_chunk on the outcome of its generate call.
SummarizeChunk(chunk, outcome) ==
    IF outcome.ok THEN SuccessSummary(chunk, outcome.value)
    ELSE FailedSummary(chunk, outcome.value)

\* The body of the for loop of summarize_all_chunks: summarize_chunk is
\* called on the current chunk, its generate call ends with outcome, and the
\* record it returns is appended.
SummarizeStep(outcome) ==
    LET chunk == chunk_data[map_i]
    IN  /\ summaries' = Append(summaries, SummarizeChunk(chunk, outcome))
        /\ calls' = Append(calls,
               Call("summarization", SummarizePrompt(chunk), 500, outcome))
        /\ map_i' = map_i + 1
        /\ UNCHANGED <<chunk_data, map_pc, split_vars, reduce_vars, aux_vars>>

\* An iteration whose generate call returns a text.
SummarizeChunkReturns ==
    /\ map_pc = "loop"
    /\ map_i <= Len(chunk_data)
    /\ \E t \in ModelTexts : SummarizeStep(Returned(t))

\* An iteration whose generate call raises.
SummarizeChunkRaises ==
    /\ map_pc = "loop"
    /\ map_i <= Len(chunk_data)
    /\ \E msg \in ErrorMessages : SummarizeStep(Raised(msg))

\* The for loop is exhausted: return summaries.
SummarizeAllReturn ==
    /\ map_pc = "loop"
    /\ map_i > Len(chunk_data)
    /\ map_pc' = "done"
    /\ UNCHANGED <<chunk_data, map_i, summaries, split_vars, reduce_vars, calls>>
    /\ UNCHANGED aux_vars

InitMap ==
    /\ chunk_data \in SeqsUpTo(ChunkRecords, MaxChunks)
    /\ map_i = 1
    /\ summaries = <<>>
    /\ map_pc = "loop"
    /\ SplitIdle /\ ReduceIdle /\ calls = <<>>
    /\ RunIdle /\ FetchIdle /\ CleanIdle /\ AgentIdle

NextMap == SummarizeChunkReturns \/ SummarizeChunkRaises \/ SummarizeAllReturn

SpecMap == InitMap /\ [][NextMap]_vars

\* C1: the list summarize_all_chunks returns has one entry per input chunk,
\* and entry i carries chunk i's chunk_id, start_timestamp and end_timestamp.
C1_OrderAndIdentity ==
    map_pc = "done" =>
        /\ Len(summaries) = Len(chunk_data)
        /\ \A i \in 1..Len(chunk_data) :
              /\ summaries[i].chunk_id = chunk_data[i].chunk_id
              /\ summaries[i].start_timestamp = chunk_data[i].start_timestamp
              /\ summaries[i].end_timestamp = chunk_data[i].end_timestamp

C1_Witness ==
    /\ map_pc = "done"
    /\ Len(chunk_data) = 2
    /\ chunk_data[1].chunk_id > chunk_data[2].chunk_id
    /\ chunk_data[1].start_timestamp # chunk_data[1].end_timestamp
    /\ ~summaries[1].success
    /\ summaries[2].success

\* C2: summarize_all_chunks returns after one generate call per chunk, and
\* the success flag of entry i is false exactly when call i raised.
C2_FailureIsolation ==
    map_pc = "done" =>
        /\ Len(calls) = Len(chunk_data)
        /\ Len(summaries) = Len(chunk_data)
        /\ \A i \in 1..Len(chunk_data) : summaries[i].success = calls[i].outcome.ok

C2_Witness ==
    /\ map_pc = "done"
    /\ Len(chunk_data) = 2
    /\ ~calls[1].outcome.ok
    /\ calls[2].outcome.ok
    /\ ~summaries[1].success
    /\ summaries[2].success

\* s is v without its leading and trailing whitespace: v is a run of
\* whitespace, then s, then a run of whitespace, and s is empty or begins and
\* ends with a character that is not whitespace.
IsTrimOf(s, v) ==
    /\ s = <<>> \/ (s[1] \notin Whitespace /\ s[Len(s)] \notin Whitespace)
    /\ \E k \in 0..(Len(v) - Len(s)) :
           /\ SubSeq(v, k + 1, k + Len(s)) = s
           /\ \A j \in 1..k : v[j] \in Whitespace
           /\ \A j \in (k + Len(s) + 1)..Len(v) : v[j] \in Whitespace

\* C20: for every summarize_chunk call made, success is true exactly when the
\* generate call returned; then summary is the returned text without leading
\* and trailing whitespace; when the call raised, success is false and summary
\* is "Error: " followed by the error's message, hence non-empty.
C20_SuccessIffReturned ==
    \A i \in 1..Len(summaries) :
        /\ summaries[i].success = calls[i].outcome.ok
        /\ calls[i].outcome.ok =>
               IsTrimOf(summaries[i].summary, calls[i].outcome.value)
        /\ ~calls[i].outcome.ok =>
               /\ ~summaries[i].success
               /\ summaries[i].summary # <<>>
               /\ summaries[i].summary =
                      <<"E", "r", "r", "o", "r", ":", " ">> \o calls[i].outcome.value

C20_Witness ==
    /\ Len(summaries) = 2
    /\ calls[1].outcome = Returned(<<" ", "o", "k", "\n">>)
    /\ summaries[1].summary = <<"o", "k">>
    /\ calls[2].outcome = Raised(<<>>)
    /\ summaries[2].summary = <<"E", "r", "r", "o", "r", ":", " ">>

----------------------------------------------------------------------------
\* SynthesisAgent

RECURSIVE Join(_, _)
\* sep.join(parts)
Join(parts, sep) ==
    IF parts = <<>> THEN <<>>
    ELSE IF Len(parts) = 1 THEN parts[1]
    ELSE parts[1] \o sep \o Join(Tail(parts), sep)

Digit(d) == <<"0", "1", "2", "3", "4", "5", "6", "7", "8", "9">>[d + 1]

RECURSIVE Str(_)
\* str(n) of a natural number
Str(n) == IF n < 10 THEN <<Digit(n)>> ELSE Str(n \div 10) \o <<Digit(n % 10)>>

\* d.get(key, default) on a dictionary held as a record
Get(d, key, default) == IF key \in DOMAIN d THEN d[key] ELSE default

VideoId == <<"d", "Q", "w", "4", "w", "9", "W", "g", "X", "c", "Q">>

\* The two shapes of metadata YouTubeExtractor.get_video_metadata returns.
Metadata ==
    {[video_id |-> VideoId, url |-> WatchUrl \o VideoId],
     [video_id |-> VideoId, url |-> WatchUrl \o VideoId,
      duration |-> 75, segment_count |-> 3]}

\* A chunk summary as summarize_chunk returns it.
SummaryRecord(id, first, last, s, ok) ==
    [chunk_id |-> id, start_timestamp |-> first, end_timestamp |-> last,
     summary |-> s, success |-> ok]

SummaryTexts ==
    {<<>>, <<"o", "k">>, <<"h", "i">>, ErrorMarker \o <<"t", "i", "m", "e", "o", "u", "t">>}

SummaryRecords ==
    {SummaryRecord(1, first, <<"0", "1", ":", "2", "0">>, s, ok) :
        first \in Timestamps, s \in SummaryTexts, ok \in BOOLEAN}

\* One block of the synthesis input: "[start - end]\n" "summary\n"
Block(s) ==
    <<"[">> \o s.start_timestamp \o TimeRangeSep \o s.end_timestamp
        \o <<"]", "\n">> \o s.summary \o <<"\n">>

SummariesTextUnfiltered(cs) == [i \in 1..Len(cs) |-> Block(cs[i])]

\* summaries_text: the blocks of the entries whose success is true
SummariesText(cs) ==
    LET kept == SelectSeq(cs, LAMBDA s : s.success)
    IN  [i \in 1..Len(kept) |-> Block(kept[i])]

\* combined_summaries = "\n".join(summaries_text)
CombinedSummaries(cs) == Join(SummariesText(cs), <<"\n">>)

\* The user prompt of synthesize.
SynthesisPrompt(cs, md) ==
    SynthesisPromptHead \o Get(md, "url", NotAvailable)
        \o SynthesisPromptDuration
        \o (IF "duration" \in DOMAIN md THEN Str(md["duration"]) ELSE NotAvailable)
        \o SynthesisPromptChunks \o CombinedSummaries(cs) \o SynthesisPromptTail

FallbackWithoutSummaries(cs, msg) ==
    FallbackHead \o msg \o <<"\n", "\n">> \o FallbackChunks

FallbackCombinedOnly(cs, msg) == CombinedSummaries(cs)

\* The fallback document built in the except branch of synthesize.
Fallback(cs, msg) ==
    FallbackHead \o msg \o <<"\n", "\n">> \o FallbackChunks \o CombinedSummaries(cs)

\* What synthesize returns on the outcome of its generate call.
Synthesize(cs, outcome) ==
    IF outcome.ok THEN Strip(outcome.value) ELSE Fallback(cs, outcome.value)

CountAll(cs) == Len(cs)

RECURSIVE CountSuccessful(_)
\* sum(1 for s in chunk_summaries if s['success'])
CountSuccessful(cs) ==
    IF cs = <<>> THEN 0
    ELSE (IF Head(cs).success THEN 1 ELSE 0) + CountSuccessful(Tail(cs))

\* successful_chunks of the structured summary
SuccessfulChunks(cs) == CountSuccessful(cs)

\* The dictionary create_structured_summary returns.
StructuredSummary(cs, md, final_summary) ==
    [video_url |-> Get(md, "url", NotAvailable),
     video_id |-> Get(md, "video_id", NotAvailable),
     duration |-> Get(md, "duration", 0),
     summary |-> final_summary,
     chunk_count |-> Len(cs),
     successful_chunks |-> SuccessfulChunks(cs)]

\* create_structured_summary: synthesize is called, its generate call ends
\* with outcome, and the dictionary is built around what it returns.
CreateStructuredSummary(outcome) ==
    /\ calls' = Append(calls,
           Call("synthesis", SynthesisPrompt(chunk_summaries, video_metadata),
                2000, outcome))
    /\ result' = StructuredSummary(chunk_summaries, video_metadata,
                                   Synthesize(chunk_summaries, outcome))
    /\ reduce_pc' = "done"
    /\ UNCHANGED <<chunk_summaries, video_metadata, split_vars, map_vars>>
    /\ UNCHANGED aux_vars

\* The generate call of synthesize returns a text.
SynthesisReturns ==
    /\ reduce_pc = "call"
    /\ \E t \in ModelTexts : CreateStructuredSummary(Returned(t))

\* The generate call of synthesize raises.
SynthesisRaises ==
    /\ reduce_pc = "call"
    /\ \E msg \in ErrorMessages : CreateStructuredSummary(Raised(msg))

InitReduce ==
    /\ chunk_summaries \in SeqsUpTo(SummaryRecords, MaxSummaries)
    /\ video_metadata \in Metadata
    /\ result = <<>>
    /\ reduce_pc = "call"
    /\ SplitIdle /\ MapIdle /\ calls = <<>>
    /\ RunIdle /\ FetchIdle /\ CleanIdle /\ AgentIdle

NextReduce == SynthesisReturns \/ SynthesisRaises

SpecReduce == InitReduce /\ [][NextReduce]_vars

\* The first position (1-based) at or after from where sub occurs in doc, or
\* 0 when it occurs nowhere there.
FindFrom(doc, sub, from) ==
    LET hits == {k \in from..(Len(doc) - Len(sub) + 1) :
                    SubSeq(doc, k, k + Len(sub) - 1) = sub}
    IN  IF hits = {} THEN 0 ELSE SetMin(hits)

Contains(doc, sub) == FindFrom(doc, sub, 1) > 0

RECURSIVE InOrder(_, _, _)
\* The texts of subs occur in doc one after the other, without overlapping,
\* at or after position from.
InOrder(doc, subs, from) ==
    IF subs = <<>> THEN TRUE
    ELSE LET k == FindFrom(doc, Head(subs), from)
         IN  k > 0 /\ InOrder(doc, Tail(subs), k + Len(Head(subs)))

\* The summary texts of the entries whose success is true, in input order.
SuccessfulTexts ==
    LET idx == {i \in 1..Len(chunk_summaries) : chunk_summaries[i].success}
        nth(k) == CHOOSE i \in idx : Cardinality({j \in idx : j < i}) = k - 1
    IN  [k \in 1..Cardinality(idx) |-> chunk_summaries[nth(k)].summary]

SynthesisFailed == reduce_pc = "done" /\ ~calls[Len(calls)].outcome.ok

ErrorHeading == <<"#", "#", " ", "E", "r", "r", "o", "r", "\n">>

\* C3: when the synthesis call fails, synthesize still returns a document;
\* it holds an error section with the failure's message and, after it, the
\* summary text of every entry whose success is true, in input order.
C3_FallbackComplete ==
    SynthesisFailed =>
        LET doc == result.summary
            msg == calls[Len(calls)].outcome.value
            at == FindFrom(doc, ErrorHeading, 1)
        IN  /\ at > 0
            /\ FindFrom(doc, msg, at + Len(ErrorHeading)) > 0
            /\ InOrder(doc, SuccessfulTexts, at + Len(ErrorHeading))

C3_Witness ==
    /\ SynthesisFailed
    /\ calls[Len(calls)].outcome.value # <<>>
    /\ Len(chunk_summaries) = 2
    /\ chunk_summaries[1].success /\ chunk_summaries[2].success
    /\ chunk_summaries[1].summary = <<"o", "k">>
    /\ chunk_summaries[2].summary = <<"h", "i">>

\* The block of one entry as the synthesis input shows it:
\* "[start - end]", a line break, the summary, a line break.
BlockText(e) ==
    <<"[">> \o e.start_timestamp \o <<" ", "-", " ">> \o e.end_timestamp
        \o <<"]", "\n">> \o e.summary \o <<"\n">>

\* The blocks of the entries whose success is true, in input order.
SuccessfulBlocks ==
    LET idx == {i \in 1..Len(chunk_summaries) : chunk_summaries[i].success}
        nth(k) == CHOOSE i \in idx : Cardinality({j \in idx : j < i}) = k - 1
    IN  [k \in 1..Cardinality(idx) |-> BlockText(chunk_summaries[nth(k)])]

\* The number of block openings "[" in doc.
BlockCount(doc) == Cardinality({k \in 1..Len(doc) : doc[k] = "["})

\* C19: the prompt synthesize sends holds, one after the other and in input
\* order, the block of every entry whose success is true, and it holds as
\* many blocks as there are such entries, so none for a failed entry.
C19_BlocksOfSuccessfulInOrder ==
    reduce_pc = "done" =>
        LET input == calls[Len(calls)].prompt
        IN  /\ InOrder(input, SuccessfulBlocks, 1)
            /\ BlockCount(input) = Len(SuccessfulBlocks)

C19_Witness ==
    /\ reduce_pc = "done"
    /\ Len(chunk_summaries) = 2
    /\ ~chunk_summaries[1].success
    /\ chunk_summaries[1].summary # <<>>
    /\ chunk_summaries[2].success
    /\ BlockCount(calls[Len(calls)].prompt) = 1
    /\ Contains(calls[Len(calls)].prompt, BlockText(chunk_summaries[2]))

\* C4 as stated: whatever the synthesis call does, the summary of the result
\* is a non-empty string.
C4_AlwaysNonEmpty == reduce_pc = "done" => result.summary # <<>>

\* C4 as amended: the summary of the result is non-empty whenever the
\* synthesis call failed or returned a text that is not all whitespace.
C4_NonEmptyUnlessBlankReply ==
    (reduce_pc = "done"
        /\ (~calls[Len(calls)].outcome.ok
            \/ \E i \in 1..Len(calls[Len(calls)].outcome.value) :
                   calls[Len(calls)].outcome.value[i] \notin Whitespace))
    => result.summary # <<>>

C4_Witness ==
    /\ SynthesisFailed
    /\ calls[Len(calls)].outcome.value = <<>>
    /\ \A i \in 1..Len(chunk_summaries) : ~chunk_summaries[i].success
    /\ Len(chunk_summaries) = 2
    /\ result.summary # <<>>

\* C10: chunk_count is the length of the whole input list and
\* successful_chunks the number of its entries whose success is true, whether
\* the synthesis call returned or failed.
C10_Counts ==
    reduce_pc = "done" =>
        /\ result.chunk_count = Len(chunk_summaries)
        /\ result.successful_chunks =
               Cardinality({i \in 1..Len(chunk_summaries) : chunk_summaries[i].success})

C10_Witness ==
    /\ SynthesisFailed
    /\ Len(chunk_summaries) = 2
    /\ chunk_summaries[1].success
    /\ ~chunk_summaries[2].success
    /\ result.chunk_count = 2
    /\ result.successful_chunks = 1

(***************************************************************************)
(* YouTubeSummarizer.summarize_video: extract, chunk, map, reduce.  The    *)
(* generate call of the map loop is split into its start and its end, so   *)
(* that the order of calls and recorded summaries is observable.           *)
(***************************************************************************)

\* The chunk lists chunk_transcript hands to the run: at least one chunk,
\* chunk_id equal to the position in the list.
RunChunkLists ==
    {[i \in 1..Len(firsts) |-> ChunkRecord(i, t, firsts[i], last)] :
        firsts \in SeqsUpTo(Timestamps, MaxRunChunks) \ {<<>>},
        t \in ChunkTexts, last \in ChunkEndTimestamps}

\* Where the run goes when the extraction step raised: sys.exit(1).
AfterExtractFailureContinues == "chunk"
AfterExtractFailure == "exit"

\* The map loop moves to the next chunk whatever the call's outcome was.
NextChunkRetryFailed(i, outcome) == IF outcome.ok THEN i + 1 ELSE i
NextChunk(i, outcome) == i + 1

\* The for loop over chunks is exhausted.
MapFinishedEarly(i, n) == i >= n
MapFinished(i, n) == i > n

\* get_transcript_with_metadata returns the transcript and its metadata.
RunExtractReturns ==
    /\ run_pc = "extract"
    /\ \E md \in Metadata : video_metadata' = md
    /\ extraction' = "returned"
    /\ run_pc' = "chunk"
    /\ UNCHANGED <<pending, issued, chunk_summaries, result, reduce_pc>>
    /\ UNCHANGED <<split_vars, map_vars, calls, fetch_vars, clean_vars, agent_vars>>

\* get_transcript_with_metadata raises: the except clause exits the process.
RunExtractRaises ==
    /\ run_pc = "extract"
    /\ extraction' = "raised"
    /\ run_pc' = AfterExtractFailure
    /\ UNCHANGED <<pending, issued, reduce_vars>>
    /\ UNCHANGED <<split_vars, map_vars, calls, fetch_vars, clean_vars, agent_vars>>

\* Step 2: the chunking agent builds the chunk list.
RunChunk ==
    /\ run_pc = "chunk"
    /\ \E cd \in RunChunkLists : chunk_data' = cd
    /\ map_i' = 1
    /\ run_pc' = "map"
    /\ UNCHANGED <<pending, issued, extraction, summaries, map_pc>>
    /\ UNCHANGED <<split_vars, reduce_vars, calls, fetch_vars, clean_vars, agent_vars>>

\* Step 3, loop body: summarize_chunk starts its generate call.
RunMapCall ==
    /\ run_pc = "map"
    /\ pending = 0
    /\ ~MapFinished(map_i, Len(chunk_data))
    /\ Len(issued) < MaxCalls
    /\ pending' = map_i
    /\ issued' = Append(issued, [agent |-> "summarization", chunk |-> map_i])
    /\ UNCHANGED <<run_pc, extraction>>
    /\ UNCHANGED <<split_vars, map_vars, reduce_vars, calls, fetch_vars, clean_vars, agent_vars>>

\* The generate call ends with outcome; the summary is appended.
RunMapRecord(outcome) ==
    LET chunk == chunk_data[pending]
    IN  /\ chunk_summaries' = Append(chunk_summaries, SummarizeChunk(chunk, outcome))
        /\ calls' = Append(calls,
               Call("summarization", SummarizePrompt(chunk), 500, outcome))
        /\ map_i' = NextChunk(map_i, outcome)
        /\ pending' = 0
        /\ UNCHANGED <<run_pc, issued, extraction, video_metadata, result, reduce_pc>>
        /\ UNCHANGED <<chunk_data, summaries, map_pc>>
        /\ UNCHANGED <<split_vars, fetch_vars, clean_vars, agent_vars>>

RunMapReturns ==
    /\ run_pc = "map"
    /\ pending # 0
    /\ \E t \in ModelTexts : RunMapRecord(Returned(t))

RunMapRaises ==
    /\ run_pc = "map"
    /\ pending # 0
    /\ \E msg \in ErrorMessages : RunMapRecord(Raised(msg))

\* Step 4: create_structured_summary is called; synthesize starts its call.
RunReduceCall ==
    /\ run_pc = "map"
    /\ pending = 0
    /\ MapFinished(map_i, Len(chunk_data))
    /\ run_pc' = "reduce"
    /\ reduce_pc' = "call"
    /\ issued' = Append(issued, [agent |-> "synthesis", chunk |-> 0])
    /\ UNCHANGED <<pending, extraction, chunk_summaries, video_metadata, result>>
    /\ UNCHANGED <<split_vars, map_vars, calls, fetch_vars, clean_vars, agent_vars>>

\* summarize_video returns result['summary'].
RunReturn ==
    /\ run_pc = "reduce"
    /\ reduce_pc = "done"
    /\ run_pc' = "done"
    /\ UNCHANGED <<pending, issued, extraction>>
    /\ UNCHANGED <<split_vars, map_vars, reduce_vars, calls, fetch_vars, clean_vars, agent_vars>>

InitRun ==
    /\ run_pc = "extract"
    /\ pending = 0
    /\ issued = <<>>
    /\ extraction = "none"
    /\ chunk_data = <<>> /\ map_i = 1 /\ summaries = <<>> /\ map_pc = "idle"
    /\ ReduceIdle
    /\ SplitIdle /\ FetchIdle /\ CleanIdle /\ AgentIdle
    /\ calls = <<>>

NextRun ==
    \/ RunExtractReturns
    \/ RunExtractRaises
    \/ RunChunk
    \/ RunMapCall
    \/ RunMapReturns
    \/ RunMapRaises
    \/ RunReduceCall
    \/ SynthesisReturns
    \/ SynthesisRaises
    \/ RunReturn

SpecRun == InitRun /\ [][NextRun]_vars

\* C11: once the extraction step has raised, no chunk has been built, no
\* generate call (summarization or synthesis) has been started or made and no
\* result has been produced; the run is at its exit and stays there.
C11_AbortBeforeChunking ==
    extraction = "raised" =>
        /\ run_pc = "exit"
        /\ chunk_data = <<>>
        /\ chunk_summaries = <<>>
        /\ issued = <<>>
        /\ calls = <<>>
        /\ pending = 0
        /\ result = <<>>

C11_Witness == extraction = "raised" /\ run_pc = "exit"

\* The summarization calls started so far, in the order they were started.
MapIssued == SelectSeq(issued, LAMBDA c : c.agent = "summarization")

\* C17: during a run the summarization calls are started for chunks 1, 2, ...
\* in that order, each chunk once (also a chunk whose call raised); at most
\* one call is in flight, and it is the call for the chunk right after the
\* last recorded summary; each recorded summary and logged call belongs to
\* the chunk at its position; when the map loop is over every chunk has had
\* exactly one call.
C17_SequentialOneCallPerChunk ==
    LET n == Len(chunk_data)
        k == Len(chunk_summaries)
    IN  run_pc \in {"map", "reduce", "done"} =>
            /\ \A j \in 1..Len(MapIssued) : MapIssued[j].chunk = j
            /\ Len(MapIssued) = k + (IF pending = 0 THEN 0 ELSE 1)
            /\ pending # 0 => pending = k + 1
            /\ Len(MapIssued) <= n
            /\ \A j \in 1..k :
                   /\ chunk_summaries[j].chunk_id = chunk_data[j].chunk_id
                   /\ calls[j].agent = "summarization"
                   /\ calls[j].prompt = SummarizePrompt(chunk_data[j])
                   /\ chunk_summaries[j].success = calls[j].outcome.ok
            /\ run_pc \in {"reduce", "done"} => Len(MapIssued) = n /\ k = n

C17_Witness ==
    /\ run_pc = "done"
    /\ Len(chunk_data) = 2
    /\ ~chunk_summaries[1].success
    /\ chunk_summaries[2].success
    /\ Len(MapIssued) = 2

\* C18: a synthesis call is started only when every chunk has a recorded
\* summary and no call is in flight; it is the last call started and the only
\* synthesis call; a finished run over n chunks has started and made exactly
\* n + 1 generate calls, the last one the synthesis call, whether it returned
\* or raised and whether or not any chunk summary succeeded.
C18_SynthesisAfterMapOnce ==
    LET n == Len(chunk_data)
    IN  /\ \A j \in 1..Len(issued) :
               issued[j].agent = "synthesis" =>
                   /\ j = Len(issued)
                   /\ j = n + 1
                   /\ Len(chunk_summaries) = n
                   /\ pending = 0
        /\ \A j \in 1..Len(calls) :
               calls[j].agent = "synthesis" => j = n + 1 /\ j = Len(calls)
        /\ run_pc = "done" =>
               /\ Len(issued) = n + 1
               /\ Len(calls) = n + 1
               /\ issued[n + 1].agent = "synthesis"
               /\ calls[n + 1].agent = "synthesis"

C18_Witness ==
    /\ run_pc = "done"
    /\ Len(chunk_data) = 2
    /\ \A j \in 1..Len(chunk_summaries) : ~chunk_summaries[j].success
    /\ ~calls[Len(calls)].outcome.ok
    /\ Len(calls) = 3

-----------------------------------------------------------------------------
\* TextProcessor.clean_text

MaxCleanLen == 5
MaxCleanCalls == 2

CleanAlphabet == {"a", " ", "\n", "\t"}

\* The length of the run of whitespace s begins with.
WhitespaceRun(s) == SetMin({k \in 0..Len(s) : k = Len(s) \/ s[k + 1] \notin Whitespace})

RECURSIVE CollapseWhitespacePairs(_)
CollapseWhitespacePairs(s) ==
    IF s = <<>> THEN <<>>
    ELSE IF Len(s) >= 2 /\ s[1] \in Whitespace /\ s[2] \in Whitespace
         THEN <<" ">> \o CollapseWhitespacePairs(SubSeq(s, 3, Len(s)))
         ELSE <<Head(s)>> \o CollapseWhitespacePairs(Tail(s))

RECURSIVE CollapseWhitespace(_)
\* re.sub(r'\s+', ' ', text): every maximal run of whitespace becomes one space.
CollapseWhitespace(s) ==
    IF s = <<>> THEN <<>>
    ELSE IF Head(s) \in Whitespace
         THEN <<" ">> \o CollapseWhitespace(SubSeq(s, WhitespaceRun(s) + 1, Len(s)))
         ELSE <<Head(s)>> \o CollapseWhitespace(Tail(s))

RECURSIVE CollapseBlankLines(_)
\* re.sub(r'\n\s*\n', '\n', text): scanning from the left, a line break
\* followed by whitespace up to a last line break becomes one line break.
CollapseBlankLines(s) ==
    IF s = <<>> THEN <<>>
    ELSE LET rest == Tail(s)
             breaks == {k \in 1..WhitespaceRun(rest) : rest[k] = "\n"}
         IN  IF Head(s) = "\n" /\ breaks # {}
             THEN <<"\n">> \o CollapseBlankLines(SubSeq(rest, SetMax(breaks) + 1, Len(rest)))
             ELSE <<Head(s)>> \o CollapseBlankLines(rest)

\* clean_text
CleanText(s) == Strip(CollapseBlankLines(CollapseWhitespace(s)))

\* clean_text is applied to the input, then to its own result.
CleanCall ==
    /\ Len(clean_outs) < MaxCleanCalls
    /\ clean_outs' = Append(clean_outs,
           CleanText(IF clean_outs = <<>> THEN clean_in
                     ELSE clean_outs[Len(clean_outs)]))
    /\ UNCHANGED <<clean_in, split_vars, map_vars, reduce_vars, calls>>
    /\ UNCHANGED <<run_vars, fetch_vars, agent_vars>>

InitClean ==
    /\ clean_in \in SeqsUpTo(CleanAlphabet, MaxCleanLen)
    /\ clean_outs = <<>>
    /\ SplitIdle /\ MapIdle /\ ReduceIdle /\ calls = <<>>
    /\ RunIdle /\ FetchIdle /\ AgentIdle

NextClean == CleanCall

SpecClean == InitClean /\ [][NextClean]_vars

\* C15: applying clean_text to its own result gives that result again.
C15_CleanIdempotent ==
    \A j \in 2..Len(clean_outs) : clean_outs[j] = clean_outs[j - 1]

C15_Witness ==
    /\ Len(clean_outs) = 2
    /\ clean_in = <<"\t", "a", "\n", "\n", "a">>
    /\ clean_outs[1] = <<"a", " ", "a">>
    /\ clean_outs[2] = <<"a", " ", "a">>

-----------------------------------------------------------------------------
\* TextProcessor.extract_timestamps

Digits == {"0", "1", "2", "3", "4", "5", "6", "7", "8", "9"}
OpeningBrackets == {"[", "("}
ClosingBrackets == {"]", ")"}

IsDigitAt(s, k) == k >= 1 /\ k <= Len(s) /\ s[k] \in Digits
IsColonAt(s, k) == k >= 1 /\ k <= Len(s) /\ s[k] = ":"

\* [\[\(]? tried at p: the position where the digits have to begin.
TokenStart(s, p) == IF p <= Len(s) /\ s[p] \in OpeningBrackets THEN p + 1 ELSE p

\* (\d{1,2}:\d{2}(?::\d{2})?) tried at q: the position after the group, or 0
\* when it does not match there.  \d{1,2} takes two digits when it can; one
\* digit can match only when a colon follows it.
TokenEnd(s, q) ==
    LET c == IF IsDigitAt(s, q + 1) THEN q + 2 ELSE q + 1
    IN  IF IsDigitAt(s, q) /\ IsColonAt(s, c) /\ IsDigitAt(s, c + 1) /\ IsDigitAt(s, c + 2)
        THEN IF IsColonAt(s, c + 3) /\ IsDigitAt(s, c + 4) /\ IsDigitAt(s, c + 5)
             THEN c + 6
             ELSE c + 3
        ELSE 0

\* [\]\)]? tried at e: the position after the whole match.
MatchEnd(s, e) == IF e <= Len(s) /\ s[e] \in ClosingBrackets THEN e + 1 ELSE e

RECURSIVE FindAll(_, _)
\* re.findall(pattern, text) from position p on: the groups of the leftmost
\* matches that do not overlap.
FindAll(s, p) ==
    IF p > Len(s) THEN <<>>
    ELSE LET q == TokenStart(s, p)
             e == TokenEnd(s, q)
         IN  IF e > 0
             THEN <<SubSeq(s, q, e - 1)>> \o FindAll(s, MatchEnd(s, e))
             ELSE FindAll(s, p + 1)

\* extract_timestamps
ExtractTimestamps(s) == FindAll(s, 1)

-----------------------------------------------------------------------------
\* ChunkingAgent.chunk_transcript

MaxPieces == 3

\* Transcripts are made of these pieces: bracketed and bare timestamps, parts
\* of timestamps, sentence text and line breaks.
Pieces ==
    { <<"[", "0", "1", ":", "2", "0", "]", " ">>,
      <<"(", "1", ":", "0", "5", ":", "0", "9", ")">>,
      <<"1", "2", ":", "3">>,
      <<"4">>,
      <<":", "0", "7">>,
      <<"a", ".", " ">>,
      <<"\n">> }

Transcripts == {Join(ps, <<>>) : ps \in SeqsUpTo(Pieces, MaxPieces)}

\* The sizes an agent is constructed with: those of main, and small ones that
\* make the model transcripts span several chunks.
AgentConfigs == {<<4000, 200>>, <<8, 0>>, <<8, 2>>}

Sentinel == <<"0", "0", ":", "0", "0">>

FirstTimestamp(timestamps) ==
    IF timestamps # <<>> THEN timestamps[1] ELSE Sentinel

LastTimestampIsFirst(timestamps) ==
    IF timestamps # <<>> THEN timestamps[1] ELSE Sentinel

LastTimestamp(timestamps) ==
    IF timestamps # <<>> THEN timestamps[Len(timestamps)] ELSE Sentinel

\* The record built for the chunk at 0-based position idx.
BuildChunk(idx, chunk_text) ==
    LET timestamps == ExtractTimestamps(chunk_text)
    IN  [chunk_id |-> idx + 1,
         text |-> chunk_text,
         start_timestamp |-> FirstTimestamp(timestamps),
         end_timestamp |-> LastTimestamp(timestamps),
         char_count |-> Len(chunk_text)]

\* cleaned_text = clean_text(transcript); split_into_chunks is called on it.
ChunkClean ==
    /\ chunk_pc = "clean"
    /\ text' = CleanText(transcript)
    /\ split_pc' = "call"
    /\ chunk_pc' = "split"
    /\ UNCHANGED <<transcript, max_chunk_size, overlap, start, chunks, windows>>
    /\ UNCHANGED <<map_vars, reduce_vars, calls, run_vars, fetch_vars, clean_vars>>

\* split_into_chunks has returned: the loop over its chunks builds the records.
ChunkBuild ==
    /\ chunk_pc = "split"
    /\ split_pc = "done"
    /\ chunk_data' = [i \in 1..Len(chunks) |-> BuildChunk(i - 1, chunks[i])]
    /\ chunk_pc' = "done"
    /\ UNCHANGED <<transcript, map_i, summaries, map_pc>>
    /\ UNCHANGED <<split_vars, reduce_vars, calls, run_vars, fetch_vars, clean_vars>>

InitChunk ==
    /\ transcript \in Transcripts
    /\ chunk_pc = "clean"
    /\ \E cfg \in AgentConfigs : max_chunk_size = cfg[1] /\ overlap = cfg[2]
    /\ text = <<>> /\ start = 0 /\ chunks = <<>> /\ windows = <<>>
    /\ split_pc = "idle"
    /\ MapIdle /\ ReduceIdle /\ calls = <<>>
    /\ RunIdle /\ FetchIdle /\ CleanIdle

NextChunkTranscript ==
    \/ ChunkClean
    \/ SplitCall
    \/ SplitIter
    \/ SplitReturn
    \/ ChunkBuild

SpecChunk == InitChunk /\ [][NextChunkTranscript]_vars

\* C13: every record chunk_transcript returns has a non-empty text, whatever
\* the transcript is, the empty and the all-whitespace transcript included.
C13_TextNonEmpty ==
    chunk_pc = "done" => \A i \in 1..Len(chunk_data) : chunk_data[i].text # <<>>

\* t has the shape of a timestamp: one or two digits, a colon, two digits,
\* and possibly another colon and two digits.
IsTimestamp(t) ==
    \E d \in {1, 2} : \E h \in {0, 1} :
        /\ Len(t) = d + 3 + 3 * h
        /\ \A k \in 1..d : t[k] \in Digits
        /\ t[d + 1] = ":" /\ t[d + 2] \in Digits /\ t[d + 3] \in Digits
        /\ h = 1 => t[d + 4] = ":" /\ t[d + 5] \in Digits /\ t[d + 6] \in Digits

\* The places <<q, e>> of s from position p on that hold a timestamp.
TimestampSpans(s, p) ==
    {sp \in (p..Len(s)) \X (p..Len(s)) :
        sp[1] <= sp[2] /\ IsTimestamp(SubSeq(s, sp[1], sp[2]))}

RECURSIVE TokensFrom(_, _)
\* The timestamp tokens of s from position p on, left to right: the longest
\* timestamp at the first place one begins, then the tokens after it.
TokensFrom(s, p) ==
    LET spans == TimestampSpans(s, p)
    IN  IF spans = {} THEN <<>>
        ELSE LET q == SetMin({sp[1] : sp \in spans})
                 e == SetMax({sp[2] : sp \in {x \in spans : x[1] = q}})
             IN  <<SubSeq(s, q, e)>> \o TokensFrom(s, e + 1)

\* C14: in every record chunk_transcript returns, start_timestamp is the first
\* and end_timestamp the last timestamp token of the record's text, read left
\* to right; both are "00:00" when the text holds no timestamp token.
C14_FirstAndLastToken ==
    chunk_pc = "done" =>
        \A i \in 1..Len(chunk_data) :
            LET tokens == TokensFrom(chunk_data[i].text, 1)
            IN  IF tokens = <<>>
                THEN /\ chunk_data[i].start_timestamp = <<"0", "0", ":", "0", "0">>
                     /\ chunk_data[i].end_timestamp = <<"0", "0", ":", "0", "0">>
                ELSE /\ chunk_data[i].start_timestamp = tokens[1]
                     /\ chunk_data[i].end_timestamp = tokens[Len(tokens)]

C14_Witness ==
    /\ chunk_pc = "done"
    /\ \E i \in 1..Len(chunk_data) :
           /\ Len(TokensFrom(chunk_data[i].text, 1)) = 2
           /\ chunk_data[i].start_timestamp = <<"1", ":", "0", "5", ":", "0", "9">>
           /\ chunk_data[i].end_timestamp = <<"1", "2", ":", "3", "4">>

-----------------------------------------------------------------------------
\* YouTubeExtractor.get_transcript

MaxRetries == 3

\* The messages get_transcript raises.
DisabledMessage ==
    <<"T", "r", "a", "n", "s", "c", "r", "i", "p", "t", "s", " ", "a", "r",
      "e", " ", "d", "i", "s", "a", "b", "l", "e", "d", " ", "f", "o", "r",
      " ", "t", "h", "i", "s", " ", "v", "i", "d", "e", "o">>

NoTranscriptHead ==
    <<"N", "o", " ", "t", "r", "a", "n", "s", "c", "r", "i", "p", "t", " ",
      "f", "o", "u", "n", "d", " ", "f", "o", "r", " ", "t", "h", "i", "s",
      " ", "v", "i", "d", "e", "o", ".", " ", "O", "r", "i", "g", "i", "n",
      "a", "l", " ", "e", "r", "r", "o", "r", ":", " ">>

UnavailableMessage ==
    <<"V", "i", "d", "e", "o", " ", "i", "s", " ", "u", "n", "a", "v", "a",
      "i", "l", "a", "b", "l", "e", " ", "o", "r", " ", "p", "r", "i", "v",
      "a", "t", "e">>

FailedAfterHead ==
    <<"F", "a", "i", "l", "e", "d", " ", "t", "o", " ", "r", "e", "t", "r",
      "i", "e", "v", "e", " ", "t", "r", "a", "n", "s", "c", "r", "i", "p",
      "t", " ", "a", "f", "t", "e", "r", " ">>

FailedAfterMid ==
    <<" ", "a", "t", "t", "e", "m", "p", "t", "s", ":", " ">>

FailedHead ==
    <<"F", "a", "i", "l", "e", "d", " ", "t", "o", " ", "r", "e", "t", "r",
      "i", "e", "v", "e", " ", "t", "r", "a", "n", "s", "c", "r", "i", "p",
      "t", ":", " ">>

NoneText ==
    <<"N", "o", "n", "e">>

\* The message of the error raised when fetch returns no data.
EmptyDataMessage ==
    <<"T", "r", "a", "n", "s", "c", "r", "i", "p", "t", " ", "f", "e", "t",
      "c", "h", " ", "r", "e", "t", "u", "r", "n", "e", "d", " ", "e", "m",
      "p", "t", "y", " ", "d", "a", "t", "a">>

\* Messages of errors the library or the network raises.
ConnectionMessage ==
    <<"C", "o", "n", "n", "e", "c", "t", "i", "o", "n", " ", "r", "e", "s",
      "e", "t">>

PrivateMessage ==
    <<"V", "i", "d", "e", "o", " ", "i", "s", " ", "P", "r", "i", "v", "a",
      "t", "e">>

BlockedMessage ==
    <<"R", "e", "q", "u", "e", "s", "t", " ", "b", "l", "o", "c", "k", "e",
      "d">>

\* The substrings that mark an error as not to be retried.
NoRetryKeywords ==
    { <<"d", "i", "s", "a", "b", "l", "e", "d">>,
      <<"u", "n", "a", "v", "a", "i", "l", "a", "b", "l", "e">>,
      <<"p", "r", "i", "v", "a", "t", "e">>,
      <<"n", "o", " ", "t", "r", "a", "n", "s", "c", "r", "i", "p", "t">> }

UpperLetters ==
    <<"A", "B", "C", "D", "E", "F", "G", "H", "I", "J", "K", "L", "M",
      "N", "O", "P", "Q", "R", "S", "T", "U", "V", "W", "X", "Y", "Z">>

LowerLetters ==
    <<"a", "b", "c", "d", "e", "f", "g", "h", "i", "j", "k", "l", "m",
      "n", "o", "p", "q", "r", "s", "t", "u", "v", "w", "x", "y", "z">>

\* str.lower() on the letters A to Z
LowerChar(c) ==
    IF \E i \in 1..26 : UpperLetters[i] = c
    THEN LowerLetters[CHOOSE i \in 1..26 : UpperLetters[i] = c]
    ELSE c

Lower(s) == [i \in 1..Len(s) |-> LowerChar(s[i])]

\* any(x in error_msg for x in [...]) with error_msg = str(e).lower()
HasNoRetryKeyword(msg) == \E x \in NoRetryKeywords : Contains(Lower(msg), x)

\* What an attempt can meet: the transcript data, one of the library's typed
\* errors, or any other exception; every error carries a message.
LibraryErrors == {"TranscriptsDisabled", "NoTranscriptFound", "VideoUnavailable"}
FetchKinds == LibraryErrors \cup {"Exception"}
FetchMessages == {EmptyDataMessage, ConnectionMessage, PrivateMessage, BlockedMessage}

\* The except clauses that name a type of the library.
IsTypedFailureWithoutUnavailable(kind) ==
    kind \in {"TranscriptsDisabled", "NoTranscriptFound"}

IsTypedFailure(kind) ==
    kind \in {"TranscriptsDisabled", "NoTranscriptFound", "VideoUnavailable"}

\* The message raised by the except clause of a typed error.
TypedMessage(kind, msg) ==
    CASE kind = "TranscriptsDisabled" -> DisabledMessage
      [] kind = "NoTranscriptFound" -> NoTranscriptHead \o msg
      [] kind = "VideoUnavailable" -> UnavailableMessage

\* str(last_error)
LastErrorText ==
    IF attempts = <<>> THEN NoneText ELSE attempts[Len(attempts)].msg

\* if attempt < max_retries - 1: another attempt follows this one.
AttemptsRemainOffByOne(a, n) == a < n

AttemptsRemain(a, n) == a < n - 1

\* The attempt met kind/msg and the function raises message: the loop is left.
FetchRaise(kind, msg, message) ==
    /\ attempts' = Append(attempts, [kind |-> kind, msg |-> msg])
    /\ fetch_pc' = "raised"
    /\ fetch_out' = [raised |-> TRUE, message |-> message]
    /\ UNCHANGED <<max_retries, attempt, sleeps>>
    /\ UNCHANGED <<split_vars, map_vars, reduce_vars, calls, run_vars, clean_vars, agent_vars>>

\* The attempt fetches the transcript: its segments are returned.
FetchReturns ==
    /\ fetch_pc = "loop"
    /\ attempt < max_retries
    /\ attempts' = Append(attempts, [kind |-> "data", msg |-> <<>>])
    /\ fetch_pc' = "returned"
    /\ fetch_out' = [raised |-> FALSE, message |-> <<>>]
    /\ UNCHANGED <<max_retries, attempt, sleeps>>
    /\ UNCHANGED <<split_vars, map_vars, reduce_vars, calls, run_vars, clean_vars, agent_vars>>

\* The attempt meets an error caught by a typed except clause.
FetchTypedFailure ==
    /\ fetch_pc = "loop"
    /\ attempt < max_retries
    /\ \E kind \in FetchKinds, msg \in FetchMessages :
           /\ IsTypedFailure(kind)
           /\ FetchRaise(kind, msg, TypedMessage(kind, msg))

\* The attempt meets another error whose message holds a no-retry keyword.
FetchKeywordFailure ==
    /\ fetch_pc = "loop"
    /\ attempt < max_retries
    /\ \E kind \in FetchKinds, msg \in FetchMessages :
           /\ ~IsTypedFailure(kind)
           /\ HasNoRetryKeyword(msg)
           /\ FetchRaise(kind, msg, msg)

\* The attempt meets another error and is not the last one: sleep, continue.
FetchRetry ==
    /\ fetch_pc = "loop"
    /\ attempt < max_retries
    /\ AttemptsRemain(attempt, max_retries)
    /\ \E kind \in FetchKinds, msg \in FetchMessages :
           /\ ~IsTypedFailure(kind)
           /\ ~HasNoRetryKeyword(msg)
           /\ attempts' = Append(attempts, [kind |-> kind, msg |-> msg])
    /\ sleeps' = Append(sleeps, (attempt + 1) * 2)
    /\ attempt' = attempt + 1
    /\ UNCHANGED <<max_retries, fetch_pc, fetch_out>>
    /\ UNCHANGED <<split_vars, map_vars, reduce_vars, calls, run_vars, clean_vars, agent_vars>>

\* The last attempt meets another error.
FetchLastAttemptFails ==
    /\ fetch_pc = "loop"
    /\ attempt < max_retries
    /\ ~AttemptsRemain(attempt, max_retries)
    /\ \E kind \in FetchKinds, msg \in FetchMessages :
           /\ ~IsTypedFailure(kind)
           /\ ~HasNoRetryKeyword(msg)
           /\ FetchRaise(kind, msg,
                  FailedAfterHead \o Str(max_retries) \o FailedAfterMid \o msg)

\* The for loop is exhausted without a return or a raise.
FetchLoopExhausted ==
    /\ fetch_pc = "loop"
    /\ ~(attempt < max_retries)
    /\ fetch_pc' = "raised"
    /\ fetch_out' = [raised |-> TRUE, message |-> FailedHead \o LastErrorText]
    /\ UNCHANGED <<max_retries, attempt, attempts, sleeps>>
    /\ UNCHANGED <<split_vars, map_vars, reduce_vars, calls, run_vars, clean_vars, agent_vars>>

InitFetch ==
    /\ max_retries \in 0..MaxRetries
    /\ attempt = 0
    /\ attempts = <<>>
    /\ sleeps = <<>>
    /\ fetch_pc = "loop"
    /\ fetch_out = <<>>
    /\ SplitIdle /\ MapIdle /\ ReduceIdle /\ calls = <<>>
    /\ RunIdle /\ CleanIdle /\ AgentIdle

NextFetch ==
    \/ FetchReturns
    \/ FetchTypedFailure
    \/ FetchKeywordFailure
    \/ FetchRetry
    \/ FetchLastAttemptFails
    \/ FetchLoopExhausted

SpecFetch == InitFetch /\ [][NextFetch]_vars

\* C12: an attempt that met TranscriptsDisabled, VideoUnavailable or
\* NoTranscriptFound is the last attempt made: get_transcript has raised, and
\* the only sleeps made are those after the earlier attempts, none after it,
\* whatever max_retries is.
C12_PermanentFailureNotRetried ==
    \A i \in 1..Len(attempts) :
        attempts[i].kind \in {"TranscriptsDisabled", "NoTranscriptFound", "VideoUnavailable"} =>
            /\ i = Len(attempts)
            /\ fetch_pc = "raised"
            /\ fetch_out.raised
            /\ Len(sleeps) = i - 1

C12_Witness ==
    /\ max_retries = 3
    /\ Len(attempts) = 2
    /\ attempts[1].kind = "Exception"
    /\ attempts[2].kind = "VideoUnavailable"
    /\ sleeps = <<2>>
    /\ fetch_pc = "raised"
    /\ fetch_out.message = UnavailableMessage

\* C22: a call makes at most max_retries attempts; an attempt that yields
\* data is the last one and the call returns; every attempt before the last
\* is a failure that was not one of the typed errors, and one sleep of
\* 2, 4, ... seconds was made after each of them and none after the last;
\* once max_retries attempts are made the call has ended; a call that has
\* returned holds data, a call that has raised holds an error with a
\* message, and a call still in its loop can always take a step.
C22_BoundedAttempts ==
    LET n == Len(attempts)
    IN  /\ n <= max_retries
        /\ \A i \in 1..n :
               attempts[i].kind = "data" => i = n /\ fetch_pc = "returned"
        /\ \A i \in 1..(n - 1) : attempts[i].kind = "Exception"
        /\ Len(sleeps) = (IF fetch_pc = "loop" THEN n ELSE Max2(n - 1, 0))
        /\ \A i \in 1..Len(sleeps) : sleeps[i] = 2 * i
        /\ (n = max_retries /\ n > 0) => fetch_pc # "loop"
        /\ fetch_pc \in {"loop", "returned", "raised"}
        /\ fetch_pc = "returned" =>
               /\ n > 0
               /\ attempts[n].kind = "data"
               /\ ~fetch_out.raised
        /\ fetch_pc = "raised" =>
               /\ fetch_out.raised
               /\ fetch_out.message # <<>>
               /\ n > 0 => attempts[n].kind # "data"
        /\ fetch_pc = "loop" => ENABLED NextFetch

C22_Witness ==
    /\ max_retries = 3
    /\ Len(attempts) = 3
    /\ \A i \in 1..3 : attempts[i].kind = "Exception"
    /\ sleeps = <<2, 4>>
    /\ fetch_pc = "raised"
    /\ Len(fetch_out.message) >= Len(FailedAfterHead)
    /\ SubSeq(fetch_out.message, 1, Len(FailedAfterHead)) = FailedAfterHead

-----------------------------------------------------------------------------
\* TextProcessor.split_into_chunks with windows at least as long as the
\* sentence look-back, as the driver configures it.

MaxWideExtra == 2
MaxWideLead == 3
MaxWideMid == 3
MaxWideTail == 2

\* What may follow the first sentence: nothing, or a second terminator and
\* space and some more text.
WideTails == {<<>>} \cup {<<".", " ">> \o Rep("a", k) : k \in 0..MaxWideTail}

\* Texts about as long as the look-back or longer: a short lead, a terminator
\* and a space, a long stretch of "a", and a tail.
WideTexts ==
    {Rep("a", i) \o <<t, " ">> \o Rep("a", j) \o tail :
        i \in 0..MaxWideLead, t \in Terminators,
        j \in (Lookback - 2)..(Lookback + MaxWideMid), tail \in WideTails}

InitWide ==
    /\ text \in WideTexts
    /\ max_chunk_size \in Lookback..(Lookback + MaxWideExtra)
    /\ overlap \in 0..MaxWideExtra
    /\ overlap <= max_chunk_size - Lookback
    /\ start = 0
    /\ chunks = <<>>
    /\ windows = <<>>
    /\ split_pc = "call"
    /\ MapIdle /\ ReduceIdle /\ calls = <<>>
    /\ RunIdle /\ FetchIdle /\ CleanIdle /\ AgentIdle

NextWide == SplitCall \/ SplitIter \/ SplitReturn

SpecWide == InitWide /\ [][NextWide]_vars

\* The configurations the claim is about.
WideConfig ==
    max_chunk_size >= 200 /\ overlap >= 0 /\ overlap <= max_chunk_size - 200

\* The cursor after the i-th iteration: the start of the next window, or the
\* current cursor after the last iteration made.
StartAfter(i) == IF i < Len(windows) THEN windows[i + 1].start ELSE start

\* C21: with max_chunk_size >= 200 and 0 <= overlap <= max_chunk_size - 200,
\* the cursor start is always within 0..length(text); every iteration whose
\* window is not final (start + max_chunk_size is before the end of the text)
\* moves it forward by at least max_chunk_size - 199 - overlap, which is at
\* least 1, and every other iteration puts it at length(text), where the loop
\* ends; so the distance to the end of the text shrinks with each iteration
\* and the split returns.  No run is cut short: a split still in its loop
\* before the end of the text can make its next iteration.
C21_WideConfigTerminates ==
    WideConfig =>
        /\ start >= 0 /\ start <= Len(text)
        /\ max_chunk_size - 199 - overlap >= 1
        /\ \A i \in 1..Len(windows) :
               /\ windows[i].start >= 0 /\ windows[i].start < Len(text)
               /\ IF windows[i].start + max_chunk_size < Len(text)
                  THEN StartAfter(i) >= windows[i].start
                                            + (max_chunk_size - 199 - overlap)
                  ELSE StartAfter(i) = Len(text)
        /\ (split_pc = "loop" /\ start < Len(text)) => Len(windows) < MaxIter
        /\ split_pc = "done" => (start = Len(text) \/ windows = <<>>)

C21_Witness ==
    /\ WideConfig
    /\ split_pc = "done"
    /\ overlap > 0
    /\ Len(windows) >= 3
    /\ windows[2].start = windows[1].start + (max_chunk_size - 199 - overlap)
    /\ windows[2].start + max_chunk_size < Len(text)
    /\ windows[2].end < windows[2].start + max_chunk_size
    /\ start = Len(text)

====
